---- MODULE Spec2Model ----
(***************************************************************************)
(* State machine of src/src/components/PdfEditor.vue (the <script setup>  *)
(* block at lines 722-1193 and the template at lines 1195-1460).          *)
(*                                                                         *)
(* Conventions                                                             *)
(*  - A file / byte buffer / parsed document is represented by a document *)
(*    number; 0 stands for null.                                          *)
(*  - A string is a sequence of one-character strings.                    *)
(*  - The zoom factor is kept in quarters (scale 1.5 is 6), viewport      *)
(*    lengths are kept in quarter pixels, so that every zoom level is an  *)
(*    integer factor: viewport = pdf * scale.                             *)
(*  - The key `${page}-${i}` of a text item is the pair <<page, i>>.      *)
(*  - Every async function in flight is a record of `tasks`, holding the  *)
(*    await it is suspended at and the locals it has captured.            *)
(***************************************************************************)
EXTENDS Integers, Sequences, FiniteSets, TLC

\* ---------------------------------------------------------------- bounds
MaxTasks == 2
MaxEdits == 2
MaxOverlays == 2
MaxNow == 1
MaxZoomIdx == 7

\* ------------------------------------------------------ program constants
zoomLevels == <<1, 2, 3, 4, 5, 6, 8, 10, 12, 16, 20>>
InitialScale == 6
rectPadding == 1
NewOverlayFontSize == 16
NewOverlayBgWidth == 120
NewOverlayBgHeight == 22

\* ------------------------------------------------ the files a user can pick
\* File 1 has two pages, files 2 and 4 have one page, file 3 is not a PDF:
\* PDFDocument.load and pdf.js both reject it.
Files == { 1, 2, 3, 4 }
Malformed(d) == d = 3
NumPages(d) == IF d = 1 THEN 2 ELSE 1
PageHeight(d) == 792 - d

WhiteSpace == {" ", "\t", "\n"}

\* str of the items of page.getTextContent(), in stream order
ItemStrs(d, p) ==
  IF d = 1 THEN (IF p = 1 THEN << <<" ">>, <<"A">> >> ELSE << <<"B">> >>)
  ELSE IF d = 2 THEN << <<"C">> >>
  ELSE << <<"D">>, <<>>, <<"E", " ">>, <<" ", "\t">>, <<"F">> >>

\* transform, width and height of item i (0-based) of page p of file d
ItemSize(d, p, i) == 8 + 4 * ((d + p + i) % 2)
ItemTransform(d, p, i) ==
  << ItemSize(d, p, i), 0, 0, ItemSize(d, p, i),
     1000 * d + 100 * p + 10 * (i + 1), 700 - 20 * i >>
ItemWidth(d, p, i) == 30 + i
ItemHeight(d, p, i) == IF i % 2 = 0 THEN ItemSize(d, p, i) - 2 ELSE ItemSize(d, p, i) + 2

TextContent(d, p) ==
  [ n \in 1..Len(ItemStrs(d, p)) |->
      [ str |-> ItemStrs(d, p)[n],
        transform |-> ItemTransform(d, p, n - 1),
        width |-> ItemWidth(d, p, n - 1),
        height |-> ItemHeight(d, p, n - 1) ] ]

\* what the user can type into a text item
TypedTexts == { <<"X">> }

\* ------------------------------------------------------------------ state
VARIABLES
  pdfDoc,             \* line 730: pdf-lib document (document number, 0 = null)
  pdfBytes,           \* line 731: byte buffer (document number, 0 = null)
  currentPage,        \* line 732
  totalPages,         \* line 733
  scale,              \* line 734, in quarters
  textOverlays,       \* line 736: sequence of overlays
  isLoading,          \* line 737
  selectedOverlay,    \* line 739: overlay id, -1 = null
  isAddingText,       \* line 740
  existingTextItems,  \* line 743: sequence of text items
  editedTextItems,    \* line 745: object, as the sequence of its entries in key order
  selectedTextItem,   \* line 747: item key, <<>> = null
  editMode,           \* line 749
  tasks,              \* the async functions in flight, oldest first
  now,                \* Date.now()
  saved               \* the last download handed to the browser, <<>> = none

vars == << pdfDoc, pdfBytes, currentPage, totalPages, scale, textOverlays,
           isLoading, selectedOverlay, isAddingText, existingTextItems,
           editedTextItems, selectedTextItem, editMode, tasks, now, saved >>

NoItem == <<>>
NoOverlay == -1

Init ==
  /\ pdfDoc = 0
  /\ pdfBytes = 0
  /\ currentPage = 1
  /\ totalPages = 0
  /\ scale = InitialScale
  /\ textOverlays = <<>>
  /\ isLoading = FALSE
  /\ selectedOverlay = NoOverlay
  /\ isAddingText = FALSE
  /\ existingTextItems = <<>>
  /\ editedTextItems = <<>>
  /\ selectedTextItem = NoItem
  /\ editMode = "edit"
  /\ tasks = <<>>
  /\ now = 0
  /\ saved = <<>>

\* ------------------------------------------------------- pure helpers
\* String.prototype.trim
RECURSIVE TrimStart(_)
TrimStart(s) ==
  IF s = <<>> THEN <<>>
  ELSE IF Head(s) \in WhiteSpace THEN TrimStart(Tail(s)) ELSE s

RECURSIVE TrimEnd(_)
TrimEnd(s) ==
  IF s = <<>> THEN <<>>
  ELSE IF s[Len(s)] \in WhiteSpace THEN TrimEnd(SubSeq(s, 1, Len(s) - 1)) ELSE s

Trim(s) == TrimEnd(TrimStart(s))

\* line 820: !item.str || item.str.trim() === ''
IsSkipped(str) == str = <<>> \/ Trim(str) = <<>>

\* Math.sqrt on the squares that occur, rounded down otherwise
RECURSIVE Sqrt(_)
Sqrt(n) ==
  IF n < 2 THEN n
  ELSE CHOOSE r \in { s + b : s \in { 2 * Sqrt(n \div 4) }, b \in { 0, 1 } } :
         r * r <= n /\ (r + 1) * (r + 1) > n

Max(a, b) == IF a >= b THEN a ELSE b

\* pdfjsLib.Util.transform(m1, m2)
UtilTransform(m1, m2) ==
  << m1[1] * m2[1] + m1[3] * m2[2],
     m1[2] * m2[1] + m1[4] * m2[2],
     m1[1] * m2[3] + m1[3] * m2[4],
     m1[2] * m2[3] + m1[4] * m2[4],
     m1[1] * m2[5] + m1[3] * m2[6] + m1[5],
     m1[2] * m2[5] + m1[4] * m2[6] + m1[6] >>

\* page.getViewport({ scale }) of an unrotated page of file d
GetViewport(d, z) ==
  [ scale |-> z, transform |-> << z, 0, 0, -z, 0, PageHeight(d) * z >> ]

\* `${pageKey}-${i}`
ItemKey(pageKey, i) == << pageKey, i >>

\* editedTextItems.value[key], as a set of at most one entry
EditsFor(edits, key) == { n \in 1..Len(edits) : edits[n].key = key }
HasEdit(edits, key) == EditsFor(edits, key) # {}
EditOf(edits, key) == edits[CHOOSE n \in EditsFor(edits, key) : TRUE]
EditKeys(edits) == { edits[n].key : n \in 1..Len(edits) }

\* an assignment that adds a second entry for a key already present
SetEdit_Appends(edits, key, entry) == Append(edits, entry)

\* editedTextItems.value[key] = entry: an existing key keeps its place,
\* a new key goes last (property order of a JavaScript object)
SetEdit(edits, key, entry) ==
  IF HasEdit(edits, key)
    THEN [ n \in 1..Len(edits) |-> IF edits[n].key = key THEN entry ELSE edits[n] ]
    ELSE Append(edits, entry)

\* delete editedTextItems.value[key]
DeleteEdit(edits, key) == SelectSeq(edits, LAMBDA e : e.key # key)

\* lines 818-858: the body of the loop for source index i (0-based).
\* ofDoc and ofPage are history fields: the file and the page the item was
\* read from.  They are never read by the program.
ItemOf(src, i, viewport, pageKey, edits, d, p) ==
  LET tx      == UtilTransform(viewport.transform, src.transform)
      x       == tx[5]
      y       == tx[6]
      fontSize == Sqrt(tx[3] * tx[3] + tx[4] * tx[4])
      width   == src.width * viewport.scale
      height  == src.height * viewport.scale
      itemKey == ItemKey(pageKey, i)
      edited  == HasEdit(edits, itemKey)
  IN  [ id |-> itemKey,
        index |-> i,
        originalText |-> src.str,
        text |-> IF edited THEN EditOf(edits, itemKey).text ELSE src.str,
        x |-> x,
        y |-> y - height,
        width |-> width,
        height |-> Max(height, fontSize),
        fontSize |-> fontSize,
        page |-> pageKey,
        isEdited |-> edited,
        isEditing |-> FALSE,
        pdfX |-> src.transform[5],
        pdfY |-> src.transform[6],
        pdfFontSize |-> Sqrt(src.transform[3] * src.transform[3]
                             + src.transform[4] * src.transform[4]),
        pdfWidth |-> src.width,
        pdfHeight |-> src.height,
        ofDoc |-> d,
        ofPage |-> p ]

\* ItemOf with the text always taken from the page
MakeItem_OriginalText(src, i, viewport, pageKey, edits, d, p) ==
  [ ItemOf(src, i, viewport, pageKey, edits, d, p) EXCEPT !.text = src.str ]

\* ItemOf with the edited flag never restored
MakeItem_NotEdited(src, i, viewport, pageKey, edits, d, p) ==
  [ ItemOf(src, i, viewport, pageKey, edits, d, p) EXCEPT !.isEdited = FALSE ]

\* lines 838-857: items.push({ ... })
MakeItem(src, i, viewport, pageKey, edits, d, p) ==
  ItemOf(src, i, viewport, pageKey, edits, d, p)

\* lines 816-858: the loop over textContent.items
RECURSIVE ExtractFrom(_, _, _, _, _, _, _)
ExtractFrom(content, n, viewport, pageKey, edits, d, p) ==
  IF n > Len(content) THEN <<>>
  ELSE IF IsSkipped(content[n].str)
    THEN ExtractFrom(content, n + 1, viewport, pageKey, edits, d, p)
    ELSE << MakeItem(content[n], n - 1, viewport, pageKey, edits, d, p) >>
         \o ExtractFrom(content, n + 1, viewport, pageKey, edits, d, p)

ExtractItems(d, p, viewport, pageKey, edits) ==
  ExtractFrom(TextContent(d, p), 1, viewport, pageKey, edits, d, p)

\* ------------------------------------------------------------ async tasks
\* kind: "load" (handleFileUpload), "render" (renderPage called by a
\*       navigation or zoom handler), "save" (savePdf)
\* pc:   the await the function is suspended at
\* file: the File chosen (load); data: the bytes handed to the parser;
\* page, viewport: locals of renderPage; ops: what was drawn (save);
\* latest: history flag, TRUE while no later renderPage call was made.
NoViewport == [ scale |-> 0, transform |-> <<>> ]

NewTask(kind, pc, file, data) ==
  [ kind |-> kind, pc |-> pc, file |-> file, data |-> data,
    page |-> 0, viewport |-> NoViewport, ops |-> <<>>, latest |-> FALSE ]

RemoveAt(s, k) == SubSeq(s, 1, k - 1) \o SubSeq(s, k + 1, Len(s))

ReplaceAt(s, k, e) == [ n \in 1..Len(s) |-> IF n = k THEN e ELSE s[n] ]

Supersede(ts) == [ n \in 1..Len(ts) |-> [ ts[n] EXCEPT !.latest = FALSE ] ]

RenderPcs == { "getDocument", "getPage", "getTextContent" }

IsRendering(t) == t.pc \in RenderPcs

\* lines 791-795: renderPage() up to its first await, called from a handler
\* for the task sequence ts; bytes is pdfBytes.value at the call
CallRenderPage(ts, bytes) ==
  IF bytes = 0 THEN ts
  ELSE Append(Supersede(ts),
              [ NewTask("render", "getDocument", 0, bytes) EXCEPT !.latest = TRUE ])

\* an owning function without its finally block
Settle_NoFinally(k) ==
  /\ tasks' = RemoveAt(tasks, k)
  /\ isLoading' = isLoading

\* lines 782-787 and 1159-1164: catch and finally of the owning function;
\* a renderPage called by a navigation or zoom handler has no catch
Settle(k) ==
  /\ tasks' = RemoveAt(tasks, k)
  /\ isLoading' = IF tasks[k].kind \in { "load", "save" } THEN FALSE ELSE isLoading

\* ------------------------------------------------------- handleFileUpload
\* lines 760-768: a file is chosen
handleFileUpload(f) ==
  /\ Len(tasks) < MaxTasks
  /\ isLoading' = TRUE
  /\ tasks' = Append(tasks, NewTask("load", "arrayBuffer", f, 0))
  /\ UNCHANGED << pdfDoc, pdfBytes, currentPage, totalPages, scale, textOverlays,
                  selectedOverlay, isAddingText, existingTextItems,
                  editedTextItems, selectedTextItem, editMode, now, saved >>

\* lines 768-772: file.arrayBuffer() has resolved
LoadArrayBuffer(k) ==
  /\ tasks[k].kind = "load" /\ tasks[k].pc = "arrayBuffer"
  /\ pdfBytes' = tasks[k].file
  /\ tasks' = ReplaceAt(tasks, k, [ tasks[k] EXCEPT !.pc = "PDFDocument.load",
                                                     !.data = tasks[k].file ])
  /\ UNCHANGED << pdfDoc, currentPage, totalPages, scale, textOverlays, isLoading,
                  selectedOverlay, isAddingText, existingTextItems,
                  editedTextItems, selectedTextItem, editMode, now, saved >>

\* lines 772-781: PDFDocument.load has resolved; the state is reset and
\* renderPage is called
LoadParsed(k) ==
  /\ tasks[k].kind = "load" /\ tasks[k].pc = "PDFDocument.load"
  /\ ~Malformed(tasks[k].data)
  /\ pdfDoc' = tasks[k].data
  /\ totalPages' = NumPages(tasks[k].data)
  /\ textOverlays' = <<>>
  /\ editedTextItems' = <<>>
  /\ existingTextItems' = <<>>
  /\ selectedTextItem' = NoItem
  /\ tasks' = ReplaceAt(Supersede(tasks), k,
                        [ tasks[k] EXCEPT !.pc = "getDocument", !.data = pdfBytes,
                                          !.latest = TRUE ])
  /\ UNCHANGED << pdfBytes, currentPage, scale, isLoading, selectedOverlay,
                  isAddingText, editMode, now, saved >>

\* lines 772, 782-787: PDFDocument.load has rejected
LoadParseFailed(k) ==
  /\ tasks[k].kind = "load" /\ tasks[k].pc = "PDFDocument.load"
  /\ Malformed(tasks[k].data)
  /\ Settle(k)
  /\ UNCHANGED << pdfDoc, pdfBytes, currentPage, totalPages, scale, textOverlays,
                  selectedOverlay, isAddingText, existingTextItems,
                  editedTextItems, selectedTextItem, editMode, now, saved >>

\* ------------------------------------------------------------- renderPage
\* lines 795-796: loadingTask.promise has resolved; getPage(currentPage.value)
RenderGotDocument(k) ==
  /\ tasks[k].pc = "getDocument"
  /\ ~Malformed(tasks[k].data)
  /\ tasks' = ReplaceAt(tasks, k, [ tasks[k] EXCEPT !.pc = "getPage",
                                                     !.page = currentPage ])
  /\ UNCHANGED << pdfDoc, pdfBytes, currentPage, totalPages, scale, textOverlays,
                  isLoading, selectedOverlay, isAddingText, existingTextItems,
                  editedTextItems, selectedTextItem, editMode, now, saved >>

\* lines 796-815: pdf.getPage has resolved; the viewport is taken at
\* scale.value and page.render is started.  page.render().promise and then
\* page.getTextContent() are awaited with nothing read or written in
\* between, so the two awaits are one suspension.
RenderGotPage(k) ==
  /\ tasks[k].pc = "getPage"
  /\ tasks[k].page \in 1..NumPages(tasks[k].data)
  /\ tasks' = ReplaceAt(tasks, k,
                [ tasks[k] EXCEPT !.pc = "getTextContent",
                                  !.viewport = GetViewport(tasks[k].data, scale) ])
  /\ UNCHANGED << pdfDoc, pdfBytes, currentPage, totalPages, scale, textOverlays,
                  isLoading, selectedOverlay, isAddingText, existingTextItems,
                  editedTextItems, selectedTextItem, editMode, now, saved >>

\* lines 815-861: page.getTextContent() has resolved; the items are built
\* with currentPage.value and editedTextItems.value as they are now, and
\* renderPage (and the handleFileUpload awaiting it) returns
extractTextItems(k) ==
  /\ tasks[k].pc = "getTextContent"
  /\ existingTextItems' = ExtractItems(tasks[k].data, tasks[k].page,
                                       tasks[k].viewport, currentPage,
                                       editedTextItems)
  /\ Settle(k)
  /\ UNCHANGED << pdfDoc, pdfBytes, currentPage, totalPages, scale, textOverlays,
                  selectedOverlay, isAddingText, editedTextItems,
                  selectedTextItem, editMode, now, saved >>

\* lines 795-796: getDocument rejects bytes that are not a PDF, getPage
\* rejects a page number the document does not have
RenderFailed(k) ==
  /\ \/ tasks[k].pc = "getDocument" /\ Malformed(tasks[k].data)
     \/ tasks[k].pc = "getPage" /\ tasks[k].page \notin 1..NumPages(tasks[k].data)
  /\ Settle(k)
  /\ UNCHANGED << pdfDoc, pdfBytes, currentPage, totalPages, scale, textOverlays,
                  selectedOverlay, isAddingText, existingTextItems,
                  editedTextItems, selectedTextItem, editMode, now, saved >>

\* ------------------------------------------------------------- navigation
\* the page and zoom controls exist while pdfDoc is set (lines 1228, 1234, 1265)
HasDocument == pdfDoc # 0

\* lines 922-928
prevPage ==
  /\ HasDocument /\ Len(tasks) < MaxTasks
  /\ currentPage > 1
  /\ currentPage' = currentPage - 1
  /\ selectedTextItem' = NoItem
  /\ tasks' = CallRenderPage(tasks, pdfBytes)
  /\ UNCHANGED << pdfDoc, pdfBytes, totalPages, scale, textOverlays, isLoading,
                  selectedOverlay, isAddingText, existingTextItems,
                  editedTextItems, editMode, now, saved >>

\* lines 931-937
nextPage ==
  /\ HasDocument /\ Len(tasks) < MaxTasks
  /\ currentPage < totalPages
  /\ currentPage' = currentPage + 1
  /\ selectedTextItem' = NoItem
  /\ tasks' = CallRenderPage(tasks, pdfBytes)
  /\ UNCHANGED << pdfDoc, pdfBytes, totalPages, scale, textOverlays, isLoading,
                  selectedOverlay, isAddingText, existingTextItems,
                  editedTextItems, editMode, now, saved >>

\* the zoom levels the user goes through: from the initial one up to MaxZoomIdx
MinZoomIdx == CHOOSE n \in 1..Len(zoomLevels) : zoomLevels[n] = InitialScale

\* findIndex that looks for the first level above the zoom factor
FindIndex_Above(s) ==
  LET hits == { n \in 1..Len(zoomLevels) : zoomLevels[n] > s }
  IN  IF hits = {} THEN 0 ELSE CHOOSE n \in hits : \A m \in hits : n <= m

\* zoomLevels.findIndex(z => z >= s), 1-based, 0 when there is none
FindIndex(s) ==
  LET hits == { n \in 1..Len(zoomLevels) : zoomLevels[n] >= s }
  IN  IF hits = {} THEN 0 ELSE CHOOSE n \in hits : \A m \in hits : n <= m

\* lines 940-946: the zoom factor zoomIn leaves when it is called at s
ZoomInLevel(s) ==
  IF FindIndex(s) < Len(zoomLevels) THEN zoomLevels[FindIndex(s) + 1] ELSE s

\* lines 949-955: the zoom factor zoomOut leaves when it is called at s
ZoomOutLevel(s) ==
  IF FindIndex(s) > 1 THEN zoomLevels[FindIndex(s) - 1] ELSE s

\* lines 940-946 (button and Ctrl+wheel up, lines 958-962)
zoomIn ==
  /\ HasDocument /\ Len(tasks) < MaxTasks
  /\ FindIndex(scale) < Len(zoomLevels)
  /\ FindIndex(scale) + 1 <= MaxZoomIdx
  /\ scale' = zoomLevels[FindIndex(scale) + 1]
  /\ tasks' = CallRenderPage(tasks, pdfBytes)
  /\ UNCHANGED << pdfDoc, pdfBytes, currentPage, totalPages, textOverlays, isLoading,
                  selectedOverlay, isAddingText, existingTextItems,
                  editedTextItems, selectedTextItem, editMode, now, saved >>

\* lines 949-955 (button and Ctrl+wheel down, lines 963-965)
zoomOut ==
  /\ HasDocument /\ Len(tasks) < MaxTasks
  /\ FindIndex(scale) > 1
  /\ FindIndex(scale) - 1 >= MinZoomIdx
  /\ scale' = zoomLevels[FindIndex(scale) - 1]
  /\ tasks' = CallRenderPage(tasks, pdfBytes)
  /\ UNCHANGED << pdfDoc, pdfBytes, currentPage, totalPages, textOverlays, isLoading,
                  selectedOverlay, isAddingText, existingTextItems,
                  editedTextItems, selectedTextItem, editMode, now, saved >>

\* line 1238: the zoom selector: v-model.number="scale" @change="renderPage"
selectZoom(n) ==
  /\ HasDocument /\ Len(tasks) < MaxTasks
  /\ zoomLevels[n] # scale
  /\ scale' = zoomLevels[n]
  /\ tasks' = CallRenderPage(tasks, pdfBytes)
  /\ UNCHANGED << pdfDoc, pdfBytes, currentPage, totalPages, textOverlays, isLoading,
                  selectedOverlay, isAddingText, existingTextItems,
                  editedTextItems, selectedTextItem, editMode, now, saved >>

\* ------------------------------------------------- editing existing text
\* lines 1277-1283: the text layer shows the items of the current page
\* while editMode is 'edit'
IsShown(n) ==
  /\ HasDocument
  /\ editMode = "edit"
  /\ n \in 1..Len(existingTextItems)
  /\ existingTextItems[n].page = currentPage

\* lines 864-868 (line 1299: click on the item)
selectTextItem(n) ==
  /\ IsShown(n)
  /\ selectedTextItem' = existingTextItems[n].id
  /\ selectedOverlay' = NoOverlay
  /\ UNCHANGED << pdfDoc, pdfBytes, currentPage, totalPages, scale, textOverlays,
                  isLoading, isAddingText, existingTextItems, editedTextItems,
                  editMode, tasks, now, saved >>

\* lines 871-882 (line 1300: double click; line 1320: the Edit button).
\* The input of the item takes the focus (lines 875-881) and the item
\* leaves the editing state when the input loses it (line 1311), so the
\* double click on an item finds no other input open.
startEditingTextItem(n) ==
  /\ IsShown(n)
  /\ \A m \in 1..Len(existingTextItems) : ~existingTextItems[m].isEditing
  /\ existingTextItems' = ReplaceAt(existingTextItems, n,
                            [ existingTextItems[n] EXCEPT !.isEditing = TRUE ])
  /\ UNCHANGED << pdfDoc, pdfBytes, currentPage, totalPages, scale, textOverlays,
                  isLoading, selectedOverlay, isAddingText, editedTextItems,
                  selectedTextItem, editMode, tasks, now, saved >>

\* lines 1302-1304: typing into the input, v-model="item.text"
typeText(n, t) ==
  /\ IsShown(n)
  /\ existingTextItems[n].isEditing
  /\ t # existingTextItems[n].text
  /\ existingTextItems' = ReplaceAt(existingTextItems, n,
                            [ existingTextItems[n] EXCEPT !.text = t ])
  /\ UNCHANGED << pdfDoc, pdfBytes, currentPage, totalPages, scale, textOverlays,
                  isLoading, selectedOverlay, isAddingText, editedTextItems,
                  selectedTextItem, editMode, tasks, now, saved >>

\* lines 892-902: the entry written for an item.  ofDoc is a history field,
\* the file the item was read from.
EntryOf(item) ==
  [ key |-> item.id,
    text |-> item.text,
    originalText |-> item.originalText,
    pdfX |-> item.pdfX,
    pdfY |-> item.pdfY,
    pdfFontSize |-> item.pdfFontSize,
    pdfWidth |-> item.pdfWidth,
    pdfHeight |-> item.pdfHeight,
    page |-> item.page,
    ofDoc |-> item.ofDoc ]

\* EntryOf with the size of the item as it is displayed
EditEntry_ViewportSize(item) ==
  [ EntryOf(item) EXCEPT !.pdfWidth = item.width, !.pdfHeight = item.height,
                         !.pdfFontSize = item.fontSize ]

\* lines 892-902: editedTextItems.value[itemKey] = { ... }
EditEntry(item) == EntryOf(item)

\* finishEditing that leaves the entry in place when the text is the original
finishEditing_NeverDeletes(st, n) ==
  LET item == st.items[n]
  IN  IF item.text # item.originalText
        THEN [ st EXCEPT !.items = ReplaceAt(st.items, n,
                                     [ item EXCEPT !.isEditing = FALSE,
                                                   !.isEdited = TRUE ]),
                         !.edits = SetEdit(st.edits, item.id, EditEntry(item)) ]
        ELSE [ st EXCEPT !.items = ReplaceAt(st.items, n,
                                     [ item EXCEPT !.isEditing = FALSE,
                                                   !.isEdited = FALSE ]) ]

\* lines 885-908, on a state [items, edits, selected]
finishEditing(st, n) ==
  LET item == st.items[n]
  IN  IF item.text # item.originalText
        THEN [ st EXCEPT !.items = ReplaceAt(st.items, n,
                                     [ item EXCEPT !.isEditing = FALSE,
                                                   !.isEdited = TRUE ]),
                         !.edits = SetEdit(st.edits, item.id, EditEntry(item)) ]
        ELSE [ st EXCEPT !.items = ReplaceAt(st.items, n,
                                     [ item EXCEPT !.isEditing = FALSE,
                                                   !.isEdited = FALSE ]),
                         !.edits = DeleteEdit(st.edits, item.id) ]

\* revert that empties the ledger
revert_DropsAllEdits(st, n) ==
  LET item == st.items[n]
  IN  [ items |-> ReplaceAt(st.items, n,
                    [ item EXCEPT !.text = item.originalText, !.isEdited = FALSE ]),
        edits |-> <<>>,
        selected |-> NoItem ]

\* revert that leaves the edited flag set
revert_KeepsFlag(st, n) ==
  LET item == st.items[n]
  IN  [ items |-> ReplaceAt(st.items, n, [ item EXCEPT !.text = item.originalText ]),
        edits |-> DeleteEdit(st.edits, item.id),
        selected |-> NoItem ]

\* lines 911-916, on a state [items, edits, selected]
revert(st, n) ==
  LET item == st.items[n]
  IN  [ items |-> ReplaceAt(st.items, n,
                    [ item EXCEPT !.text = item.originalText, !.isEdited = FALSE ]),
        edits |-> DeleteEdit(st.edits, item.id),
        selected |-> NoItem ]

EditState ==
  [ items |-> existingTextItems, edits |-> editedTextItems,
    selected |-> selectedTextItem ]

\* lines 885-908 (lines 1311-1312: blur or Enter in the input)
finishEditingTextItem(n) ==
  /\ IsShown(n)
  /\ existingTextItems[n].isEditing
  /\ Len(finishEditing(EditState, n).edits) <= MaxEdits
  /\ existingTextItems' = finishEditing(EditState, n).items
  /\ editedTextItems' = finishEditing(EditState, n).edits
  /\ selectedTextItem' = finishEditing(EditState, n).selected
  /\ UNCHANGED << pdfDoc, pdfBytes, currentPage, totalPages, scale, textOverlays,
                  isLoading, selectedOverlay, isAddingText, editMode, tasks, now,
                  saved >>

\* lines 911-916 (lines 1318-1329: the Revert button of the selected item,
\* shown when the item is edited and not being edited)
revertTextItem(n) ==
  /\ IsShown(n)
  /\ selectedTextItem = existingTextItems[n].id
  /\ ~existingTextItems[n].isEditing
  /\ existingTextItems[n].isEdited
  /\ existingTextItems' = revert(EditState, n).items
  /\ editedTextItems' = revert(EditState, n).edits
  /\ selectedTextItem' = revert(EditState, n).selected
  /\ UNCHANGED << pdfDoc, pdfBytes, currentPage, totalPages, scale, textOverlays,
                  isLoading, selectedOverlay, isAddingText, editMode, tasks, now,
                  saved >>

\* ------------------------------------------------------------- overlays
\* where the user clicks on the canvas, in quarter pixels: (100px, 200px)
ClickPoints == { << 400, 800 >> }

\* lines 980-993.  The colours and the isEditing flag of an overlay are left
\* out; ofDoc is a history field, the buffer held when it was created.
NewOverlay(pt) ==
  [ id |-> now,
    x |-> pt[1],
    y |-> pt[2],
    text |-> << "N" >>,
    fontSize |-> 4 * NewOverlayFontSize,
    bgEnabled |-> TRUE,
    bgWidth |-> 4 * NewOverlayBgWidth,
    bgHeight |-> 4 * NewOverlayBgHeight,
    page |-> currentPage,
    ofDoc |-> pdfBytes ]

\* lines 970-1006 (line 1273: click on the canvas)
handleCanvasClick(pt) ==
  /\ HasDocument
  /\ selectedTextItem' = NoItem
  /\ IF ~isAddingText
       THEN UNCHANGED << textOverlays, selectedOverlay, isAddingText >>
       ELSE /\ Len(textOverlays) < MaxOverlays
            /\ textOverlays' = Append(textOverlays, NewOverlay(pt))
            /\ selectedOverlay' = now
            /\ isAddingText' = FALSE
  /\ UNCHANGED << pdfDoc, pdfBytes, currentPage, totalPages, scale, isLoading,
                  existingTextItems, editedTextItems, editMode, tasks, now, saved >>

\* lines 1185-1187, 1339: the overlays of the current page are shown
OverlayShown(n) ==
  /\ HasDocument
  /\ n \in 1..Len(textOverlays)
  /\ textOverlays[n].page = currentPage

\* line 1351: @click.stop="selectedOverlay = overlay.id"
selectOverlay(n) ==
  /\ OverlayShown(n)
  /\ selectedOverlay' = textOverlays[n].id
  /\ UNCHANGED << pdfDoc, pdfBytes, currentPage, totalPages, scale, textOverlays,
                  isLoading, isAddingText, existingTextItems, editedTextItems,
                  selectedTextItem, editMode, tasks, now, saved >>

\* lines 1032-1035 (line 1406: the delete button of the selected overlay)
deleteOverlay(n) ==
  /\ OverlayShown(n)
  /\ selectedOverlay = textOverlays[n].id
  /\ textOverlays' = SelectSeq(textOverlays, LAMBDA o : o.id # textOverlays[n].id)
  /\ selectedOverlay' = NoOverlay
  /\ UNCHANGED << pdfDoc, pdfBytes, currentPage, totalPages, scale, isLoading,
                  isAddingText, existingTextItems, editedTextItems,
                  selectedTextItem, editMode, tasks, now, saved >>

\* lines 1410-1414: the BG checkbox of the selected overlay,
\* v-model="overlay.bgEnabled"
toggleBackground(n) ==
  /\ OverlayShown(n)
  /\ selectedOverlay = textOverlays[n].id
  /\ textOverlays' = ReplaceAt(textOverlays, n,
                       [ textOverlays[n] EXCEPT !.bgEnabled = ~textOverlays[n].bgEnabled ])
  /\ UNCHANGED << pdfDoc, pdfBytes, currentPage, totalPages, scale, isLoading,
                  selectedOverlay, isAddingText, existingTextItems,
                  editedTextItems, selectedTextItem, editMode, tasks, now, saved >>

\* lines 1168-1174
toggleAddText ==
  /\ HasDocument
  /\ isAddingText' = ~isAddingText
  /\ IF ~isAddingText
       THEN editMode' = "add" /\ selectedTextItem' = NoItem
       ELSE UNCHANGED << editMode, selectedTextItem >>
  /\ UNCHANGED << pdfDoc, pdfBytes, currentPage, totalPages, scale, textOverlays,
                  isLoading, selectedOverlay, existingTextItems, editedTextItems,
                  tasks, now, saved >>

\* lines 1177-1182
toggleEditMode ==
  /\ HasDocument
  /\ editMode' = IF editMode = "edit" THEN "view" ELSE "edit"
  /\ isAddingText' = FALSE
  /\ selectedTextItem' = NoItem
  /\ selectedOverlay' = NoOverlay
  /\ UNCHANGED << pdfDoc, pdfBytes, currentPage, totalPages, scale, textOverlays,
                  isLoading, existingTextItems, editedTextItems, tasks, now, saved >>

\* the clock behind Date.now() advances
Tick ==
  /\ now < MaxNow
  /\ now' = now + 1
  /\ UNCHANGED << pdfDoc, pdfBytes, currentPage, totalPages, scale, textOverlays,
                  isLoading, selectedOverlay, isAddingText, existingTextItems,
                  editedTextItems, selectedTextItem, editMode, tasks, saved >>

\* ---------------------------------------------------------------- savePdf
\* a conversion that always divides by the initial zoom
ToPdf_IgnoresZoom(num, z) == (100 * num) \div InitialScale

\* What is drawn is recorded in hundredths of a PDF unit.
\* num / scale for a length num in quarter pixels
ToPdf(num, z) == (100 * num) \div z

\* lines 1081-1083: heightAtSize(s) - heightAtSize(s, { descender: false })
\* of Helvetica (ascender 718, descender -207 per 1000 units)
Descent(size) == (207 * size) \div 10

\* lines 1084-1100: the rectangle and the text drawn for one entry
EditOps(edit) ==
  << [ op |-> "drawRectangle", of |-> "edit", ref |-> edit.key, page |-> edit.page,
       x |-> 100 * (edit.pdfX - rectPadding),
       y |-> 100 * (edit.pdfY - rectPadding) - Descent(edit.pdfFontSize),
       width |-> 100 * (edit.pdfWidth + rectPadding * 2),
       height |-> 100 * (edit.pdfHeight + rectPadding * 2) + Descent(edit.pdfFontSize),
       size |-> 0, text |-> <<>> ],
     [ op |-> "drawText", of |-> "edit", ref |-> edit.key, page |-> edit.page,
       x |-> 100 * edit.pdfX,
       y |-> 100 * edit.pdfY,
       width |-> 0, height |-> 0,
       size |-> 100 * edit.pdfFontSize, text |-> edit.text ] >>

\* OverlayOps that converts at the initial zoom instead of the zoom at save
OverlayOps_InitialZoom(o, h, z) ==
  ( IF o.bgEnabled
      THEN << [ op |-> "drawRectangle", of |-> "overlay", ref |-> o.id,
                page |-> o.page,
                x |-> ToPdf(o.x, InitialScale),
                y |-> ToPdf(h * InitialScale - o.y - o.bgHeight, InitialScale),
                width |-> ToPdf(o.bgWidth, InitialScale),
                height |-> ToPdf(o.bgHeight, InitialScale),
                size |-> 0, text |-> <<>> ] >>
      ELSE <<>> )
  \o << [ op |-> "drawText", of |-> "overlay", ref |-> o.id, page |-> o.page,
          x |-> ToPdf(o.x, InitialScale),
          y |-> ToPdf(h * InitialScale - o.y - o.fontSize, InitialScale),
          width |-> 0, height |-> 0,
          size |-> ToPdf(o.fontSize, InitialScale), text |-> o.text ] >>

\* OverlayOps that draws the background whether it is enabled or not
OverlayOps_AlwaysBackground(o, h, z) ==
  << [ op |-> "drawRectangle", of |-> "overlay", ref |-> o.id,
       page |-> o.page,
       x |-> ToPdf(o.x, z),
       y |-> ToPdf(h * z - o.y - o.bgHeight, z),
       width |-> ToPdf(o.bgWidth, z),
       height |-> ToPdf(o.bgHeight, z),
       size |-> 0, text |-> <<>> ],
     [ op |-> "drawText", of |-> "overlay", ref |-> o.id, page |-> o.page,
       x |-> ToPdf(o.x, z),
       y |-> ToPdf(h * z - o.y - o.fontSize, z),
       width |-> 0, height |-> 0,
       size |-> ToPdf(o.fontSize, z), text |-> o.text ] >>

\* lines 1105-1144: the rectangle and the text drawn for one overlay on a
\* page of height h at zoom z
OverlayOps(o, h, z) ==
  ( IF o.bgEnabled
      THEN << [ op |-> "drawRectangle", of |-> "overlay", ref |-> o.id,
                page |-> o.page,
                x |-> ToPdf(o.x, z),
                y |-> ToPdf(h * z - o.y - o.bgHeight, z),
                width |-> ToPdf(o.bgWidth, z),
                height |-> ToPdf(o.bgHeight, z),
                size |-> 0, text |-> <<>> ] >>
      ELSE <<>> )
  \o << [ op |-> "drawText", of |-> "overlay", ref |-> o.id, page |-> o.page,
          x |-> ToPdf(o.x, z),
          y |-> ToPdf(h * z - o.y - o.fontSize, z),
          width |-> 0, height |-> 0,
          size |-> ToPdf(o.fontSize, z), text |-> o.text ] >>

\* AllEditOps that patches the first entry only
AllEditOps_FirstOnly(edits) ==
  IF edits = <<>> THEN <<>> ELSE EditOps(Head(edits))

RECURSIVE AllEditOps(_)
AllEditOps(edits) ==
  IF edits = <<>> THEN <<>> ELSE EditOps(Head(edits)) \o AllEditOps(Tail(edits))

RECURSIVE AllOverlayOps(_, _, _)
AllOverlayOps(os, h, z) ==
  IF os = <<>> THEN <<>>
  ELSE OverlayOps(Head(os), h, z) \o AllOverlayOps(Tail(os), h, z)

\* getPage that returns a page for every index
PagesExist_AnyIndex(d, edits, os) == TRUE

\* lines 1072, 1105: newPdfDoc.getPage(page - 1) throws outside the document
PagesExist(d, edits, os) ==
  /\ \A n \in 1..Len(edits) : edits[n].page \in 1..NumPages(d)
  /\ \A n \in 1..Len(os) : os[n].page \in 1..NumPages(d)

\* lines 1060-1067 (line 1220: the Save button, disabled while isLoading)
savePdf ==
  /\ HasDocument /\ Len(tasks) < MaxTasks
  /\ ~isLoading
  /\ isLoading' = TRUE
  /\ tasks' = Append(tasks, NewTask("save", "PDFDocument.load", 0, pdfBytes))
  /\ UNCHANGED << pdfDoc, pdfBytes, currentPage, totalPages, scale, textOverlays,
                  selectedOverlay, isAddingText, existingTextItems,
                  editedTextItems, selectedTextItem, editMode, now, saved >>

\* lines 1067-1068: PDFDocument.load has resolved; embedFont is awaited
SaveParsed(k) ==
  /\ tasks[k].kind = "save" /\ tasks[k].pc = "PDFDocument.load"
  /\ ~Malformed(tasks[k].data)
  /\ tasks' = ReplaceAt(tasks, k, [ tasks[k] EXCEPT !.pc = "embedFont" ])
  /\ UNCHANGED << pdfDoc, pdfBytes, currentPage, totalPages, scale, textOverlays,
                  isLoading, selectedOverlay, isAddingText, existingTextItems,
                  editedTextItems, selectedTextItem, editMode, now, saved >>

\* SaveDrawn that draws the overlays before it patches the entries
SaveDrawn_OverlaysFirst(k) ==
  /\ tasks[k].kind = "save" /\ tasks[k].pc = "embedFont"
  /\ PagesExist(tasks[k].data, editedTextItems, textOverlays)
  /\ tasks' = ReplaceAt(tasks, k,
                [ tasks[k] EXCEPT !.pc = "save",
                    !.ops = AllOverlayOps(textOverlays,
                                          PageHeight(tasks[k].data), scale)
                            \o AllEditOps(editedTextItems) ])
  /\ UNCHANGED << pdfDoc, pdfBytes, currentPage, totalPages, scale, textOverlays,
                  isLoading, selectedOverlay, isAddingText, existingTextItems,
                  editedTextItems, selectedTextItem, editMode, now, saved >>

\* lines 1068-1148: embedFont has resolved; the entries and the overlays
\* are drawn as they are now, at scale.value, and save() is awaited
SaveDrawn(k) ==
  /\ tasks[k].kind = "save" /\ tasks[k].pc = "embedFont"
  /\ PagesExist(tasks[k].data, editedTextItems, textOverlays)
  /\ tasks' = ReplaceAt(tasks, k,
                [ tasks[k] EXCEPT !.pc = "save",
                    !.ops = AllEditOps(editedTextItems)
                            \o AllOverlayOps(textOverlays,
                                             PageHeight(tasks[k].data), scale) ])
  /\ UNCHANGED << pdfDoc, pdfBytes, currentPage, totalPages, scale, textOverlays,
                  isLoading, selectedOverlay, isAddingText, existingTextItems,
                  editedTextItems, selectedTextItem, editMode, now, saved >>

\* SaveDone that empties the ledger once the file is downloaded
SaveDone_ConsumesLedger(k) ==
  /\ tasks[k].kind = "save" /\ tasks[k].pc = "save"
  /\ saved' = << [ data |-> tasks[k].data, ops |-> tasks[k].ops ] >>
  /\ editedTextItems' = <<>>
  /\ Settle(k)
  /\ UNCHANGED << pdfDoc, pdfBytes, currentPage, totalPages, scale, textOverlays,
                  selectedOverlay, isAddingText, existingTextItems,
                  selectedTextItem, editMode, now >>

\* lines 1148-1164: save() has resolved; the file is downloaded
SaveDone(k) ==
  /\ tasks[k].kind = "save" /\ tasks[k].pc = "save"
  /\ saved' = << [ data |-> tasks[k].data, ops |-> tasks[k].ops ] >>
  /\ Settle(k)
  /\ UNCHANGED << pdfDoc, pdfBytes, currentPage, totalPages, scale, textOverlays,
                  selectedOverlay, isAddingText, existingTextItems,
                  editedTextItems, selectedTextItem, editMode, now >>

\* lines 1067, 1072, 1105, 1159-1164: PDFDocument.load rejects bytes that
\* are not a PDF, getPage throws for a page the document does not have
SaveFailed(k) ==
  /\ tasks[k].kind = "save"
  /\ \/ tasks[k].pc = "PDFDocument.load" /\ Malformed(tasks[k].data)
     \/ /\ tasks[k].pc = "embedFont"
        /\ ~PagesExist(tasks[k].data, editedTextItems, textOverlays)
  /\ Settle(k)
  /\ UNCHANGED << pdfDoc, pdfBytes, currentPage, totalPages, scale, textOverlays,
                  selectedOverlay, isAddingText, existingTextItems,
                  editedTextItems, selectedTextItem, editMode, now, saved >>

\* ------------------------------------------------------------ the program
LoadStep ==
  \E k \in 1..Len(tasks) :
    \/ LoadArrayBuffer(k)
    \/ LoadParsed(k)
    \/ LoadParseFailed(k)

RenderStep ==
  \E k \in 1..Len(tasks) :
    \/ RenderGotDocument(k)
    \/ RenderGotPage(k)
    \/ extractTextItems(k)
    \/ RenderFailed(k)

SaveStep ==
  \E k \in 1..Len(tasks) :
    \/ SaveParsed(k)
    \/ SaveDrawn(k)
    \/ SaveDone(k)
    \/ SaveFailed(k)

Navigate ==
  \/ prevPage
  \/ nextPage
  \/ zoomIn
  \/ zoomOut
  \/ \E n \in MinZoomIdx..MaxZoomIdx : selectZoom(n)

EditText ==
  \E n \in 1..Len(existingTextItems) :
    \/ selectTextItem(n)
    \/ startEditingTextItem(n)
    \/ \E t \in TypedTexts \cup { existingTextItems[n].originalText } : typeText(n, t)
    \/ finishEditingTextItem(n)
    \/ revertTextItem(n)

EditOverlays ==
  \/ \E pt \in ClickPoints : handleCanvasClick(pt)
  \/ \E n \in 1..Len(textOverlays) :
       selectOverlay(n) \/ deleteOverlay(n) \/ toggleBackground(n)
  \/ toggleAddText
  \/ toggleEditMode

Next ==
  \/ \E f \in Files : handleFileUpload(f)
  \/ LoadStep
  \/ RenderStep
  \/ SaveStep
  \/ Navigate
  \/ EditText
  \/ EditOverlays
  \/ Tick
  \/ savePdf

Spec == Init /\ [][Next]_vars

\* ------------------------------------------------------------- scenarios
\* The program with the user's choices narrowed: which files are opened and
\* which controls are used.

\* one well-formed file, paging and zooming
NextNav ==
  \/ handleFileUpload(1)
  \/ \E k \in 1..Len(tasks) :
       \/ LoadArrayBuffer(k)
       \/ LoadParsed(k)
       \/ RenderGotDocument(k)
       \/ RenderGotPage(k)
       \/ extractTextItems(k)
  \/ Navigate

SpecNav == Init /\ [][NextNav]_vars

\* a well-formed file and a file that is not a PDF, paging, zooming and
\* editing text
NextEdit ==
  \/ \E f \in { 1, 3 } : handleFileUpload(f)
  \/ LoadStep
  \/ RenderStep
  \/ Navigate
  \/ EditText

SpecEdit == Init /\ [][NextEdit]_vars

\* three files (two pages; one page; not a PDF), paging forward, editing
\* text, adding one overlay and saving, up to the first download
NextSave ==
  /\ saved = <<>>
  /\ \/ \E f \in { 1, 2, 3 } : handleFileUpload(f)
     \/ LoadStep
     \/ RenderStep
     \/ nextPage
     \/ \E n \in 1..Len(existingTextItems) :
          \/ startEditingTextItem(n)
          \/ typeText(n, << "X" >>)
          \/ finishEditingTextItem(n)
     \/ \E pt \in ClickPoints :
          (isAddingText => textOverlays = <<>>) /\ handleCanvasClick(pt)
     \/ toggleAddText
     \/ savePdf
     \/ SaveStep

SpecSave == Init /\ [][NextSave]_vars

\* one single-page file with three runs: editing, reverting and saving, up
\* to the first download
NextPatch ==
  /\ saved = <<>>
  /\ \/ handleFileUpload(4)
     \/ \E k \in 1..Len(tasks) :
          \/ LoadArrayBuffer(k)
          \/ LoadParsed(k)
          \/ RenderGotDocument(k)
          \/ RenderGotPage(k)
          \/ extractTextItems(k)
          \/ SaveParsed(k)
          \/ SaveDrawn(k)
          \/ SaveDone(k)
     \/ EditText
     \/ savePdf

SpecPatch == Init /\ [][NextPatch]_vars

\* a save has drawn its operations, or a file was downloaded
HasDrawn ==
  \/ saved # <<>>
  \/ \E k \in 1..Len(tasks) : tasks[k].kind = "save" /\ tasks[k].pc = "save"

\* one single-page file: editing, adding one overlay, switching its
\* background and zooming until a
\* save has drawn; from then on the user only saves again
NextResave ==
  \/ /\ ~HasDrawn
     /\ \/ handleFileUpload(2)
        \/ \E k \in 1..Len(tasks) :
             \/ LoadArrayBuffer(k)
             \/ LoadParsed(k)
             \/ RenderGotDocument(k)
             \/ RenderGotPage(k)
             \/ extractTextItems(k)
        \/ \E n \in 1..Len(existingTextItems) :
             \/ startEditingTextItem(n)
             \/ typeText(n, << "X" >>)
             \/ finishEditingTextItem(n)
        \/ \E pt \in ClickPoints :
             (isAddingText => textOverlays = <<>>) /\ handleCanvasClick(pt)
        \/ toggleAddText
        \/ zoomIn
        \/ \E n \in 1..Len(textOverlays) : toggleBackground(n)
  \/ savePdf
  \/ \E k \in 1..Len(tasks) :
       \/ SaveParsed(k)
       \/ SaveDrawn(k)
       \/ SaveDone(k)

SpecResave == Init /\ [][NextResave]_vars

\* one single-page file: selecting runs, adding, selecting and deleting
\* overlays, switching modes, while the clock runs
NextSelect ==
  \/ handleFileUpload(2)
  \/ \E k \in 1..Len(tasks) :
       \/ LoadArrayBuffer(k)
       \/ LoadParsed(k)
       \/ RenderGotDocument(k)
       \/ RenderGotPage(k)
       \/ extractTextItems(k)
  \/ \E n \in 1..Len(existingTextItems) : selectTextItem(n)
  \/ EditOverlays
  \/ Tick

SpecSelect == Init /\ [][NextSelect]_vars

\* one single-page file: the zoom buttons and every entry of the zoom
\* selector
NextZoom ==
  \/ handleFileUpload(2)
  \/ \E k \in 1..Len(tasks) :
       \/ LoadArrayBuffer(k)
       \/ LoadParsed(k)
       \/ RenderGotDocument(k)
       \/ RenderGotPage(k)
       \/ extractTextItems(k)
  \/ zoomIn
  \/ zoomOut
  \/ \E n \in 1..Len(zoomLevels) : selectZoom(n)

SpecZoom == Init /\ [][NextZoom]_vars

\* the awaited call of the k-th function in flight settles and the function
\* runs to its next await or to its end
TaskStep(k) ==
  /\ k \in 1..Len(tasks)
  /\ \/ LoadArrayBuffer(k)
     \/ LoadParsed(k)
     \/ LoadParseFailed(k)
     \/ RenderGotDocument(k)
     \/ RenderGotPage(k)
     \/ extractTextItems(k)
     \/ RenderFailed(k)
     \/ SaveParsed(k)
     \/ SaveDrawn(k)
     \/ SaveDone(k)
     \/ SaveFailed(k)

\* a one-page file and a malformed file are opened and saved, with nothing
\* edited
NextBusy ==
  \/ \E f \in { 2, 3 } : handleFileUpload(f)
  \/ savePdf
  \/ LoadStep
  \/ RenderStep
  \/ SaveStep

\* every awaited call of every function in flight eventually settles
SpecBusy ==
  /\ Init
  /\ [][NextBusy]_vars
  /\ \A k \in 1..MaxTasks : WF_vars(TaskStep(k))

\* ----------------------------------------------------------------- claims
\* what extraction yields for the page, zoom and entries the session shows now
ShownItems ==
  ExtractItems(pdfBytes, currentPage, GetViewport(pdfBytes, scale), currentPage,
               editedTextItems)

\* C1: last request wins.  A renderPage that was superseded by a later
\* navigation or zoom request never writes existingTextItems, and once no
\* render is pending existingTextItems is the result of the request issued
\* last, that is the items of the current page at the current zoom.
C1_LastRequestWins ==
  [][ /\ \A k \in 1..Len(tasks) : extractTextItems(k) => tasks[k].latest
      /\ (tasks' = <<>> /\ pdfDoc' # 0) => existingTextItems' = ShownItems' ]_vars

\* C2: savePdf, whether it succeeds or fails at any step, leaves the edit
\* ledger, the overlay store and the original byte buffer as they were:
\* no step of savePdf changes editedTextItems, textOverlays or pdfBytes.
SaveAction == savePdf \/ SaveStep

C2_SaveLeavesStoresUntouched ==
  [][ SaveAction => UNCHANGED << editedTextItems, textOverlays, pdfBytes >> ]_vars

\* a file was downloaded and the entries and overlays it was patched with
\* are still in the stores
C2_Witness ==
  /\ saved # <<>>
  /\ editedTextItems # <<>>
  /\ textOverlays # <<>>
  /\ pdfBytes = saved[1].data
  /\ saved[1].ops = AllEditOps(editedTextItems)
                    \o AllOverlayOps(textOverlays, PageHeight(pdfBytes), scale)

\* C3: the ledger and the overlay store are scoped to one document: in
\* every state every ledger entry and every overlay was recorded against
\* the file whose bytes pdfBytes holds, also during and after a load.
C3_StoresScopedToDocument ==
  /\ \A n \in 1..Len(editedTextItems) : editedTextItems[n].ofDoc = pdfBytes
  /\ \A n \in 1..Len(textOverlays) : textOverlays[n].ofDoc = pdfBytes

\* C4: finishEditingTextItem decides ledger membership: after it the ledger
\* has an entry for run.id iff run.text differs from run.originalText; the
\* entry holds the run's text, PDF geometry and page; the entries of all
\* other keys are unchanged.
C4_CommitDecidesMembership ==
  [][ \A n \in 1..Len(existingTextItems) :
        finishEditingTextItem(n) =>
          LET run   == existingTextItems[n]
              after == editedTextItems'
          IN  /\ HasEdit(after, run.id) <=> (run.text # run.originalText)
              /\ HasEdit(after, run.id) =>
                   /\ Cardinality(EditsFor(after, run.id)) = 1
                   /\ EditOf(after, run.id).text = run.text
                   /\ EditOf(after, run.id).pdfX = run.pdfX
                   /\ EditOf(after, run.id).pdfY = run.pdfY
                   /\ EditOf(after, run.id).pdfFontSize = run.pdfFontSize
                   /\ EditOf(after, run.id).pdfWidth = run.pdfWidth
                   /\ EditOf(after, run.id).pdfHeight = run.pdfHeight
                   /\ EditOf(after, run.id).page = run.page
              /\ \A key \in (EditKeys(editedTextItems) \cup EditKeys(after)) \ { run.id } :
                   /\ HasEdit(editedTextItems, key)
                   /\ HasEdit(after, key)
                   /\ EditOf(after, key) = EditOf(editedTextItems, key) ]_vars

\* a run was committed with changed text and its entry holds that text
C4_Witness ==
  \E n \in 1..Len(existingTextItems) :
    /\ existingTextItems[n].isEdited
    /\ ~existingTextItems[n].isEditing
    /\ existingTextItems[n].text # existingTextItems[n].originalText
    /\ HasEdit(editedTextItems, existingTextItems[n].id)
    /\ EditOf(editedTextItems, existingTextItems[n].id).text = existingTextItems[n].text

\* what revertTextItem does to every run of every reachable state
RevertSetsOriginal(st, n) ==
  LET once == revert(st, n)
      run  == st.items[n]
  IN  /\ once.items[n].text = run.originalText
      /\ ~HasEdit(once.edits, run.id)
      /\ EditKeys(once.edits) = EditKeys(st.edits) \ { run.id }
      /\ \A key \in EditKeys(once.edits) : EditOf(once.edits, key) = EditOf(st.edits, key)
      /\ revert(once, n) = once

\* C5 as stated: revertTextItem(run) sets run.text to run.originalText and
\* removes the entry of run.id; a second application yields the same state
\* as one; applied to a run that has no ledger entry it changes no session
\* state.
C5_RevertNoOpOnUnedited ==
  \A n \in 1..Len(existingTextItems) :
    /\ RevertSetsOriginal(EditState, n)
    /\ ~HasEdit(editedTextItems, existingTextItems[n].id) =>
         revert(EditState, n) = EditState

\* C5 as amended: revertTextItem(run) sets run.text to run.originalText and
\* removes the entry of run.id, leaving the other entries alone; a second
\* application yields the same state as one; applied to a run that has no
\* ledger entry it leaves the ledger and the other runs unchanged, leaves
\* the run itself unchanged unless its input is open (then the typed text
\* is replaced by the original), and clears selectedTextItem.
C5_RevertIdempotent ==
  \A n \in 1..Len(existingTextItems) :
    LET once == revert(EditState, n)
        run  == existingTextItems[n]
    IN  /\ RevertSetsOriginal(EditState, n)
        /\ ~HasEdit(editedTextItems, run.id) =>
             /\ once.edits = editedTextItems
             /\ \A m \in 1..Len(existingTextItems) :
                  m # n => once.items[m] = existingTextItems[m]
             /\ once.items[n] = [ run EXCEPT !.text = run.originalText ]
             /\ ~run.isEditing => once.items = existingTextItems
             /\ once.selected = NoItem

\* the Revert button of an edited run is on display, next to another entry
C5_Witness ==
  \E n \in 1..Len(existingTextItems) :
    /\ IsShown(n)
    /\ selectedTextItem = existingTextItems[n].id
    /\ existingTextItems[n].isEdited
    /\ ~existingTextItems[n].isEditing
    /\ HasEdit(editedTextItems, existingTextItems[n].id)
    /\ Len(editedTextItems) = 2

\* C6: isEdited is derived from the ledger: in every state, for every run
\* of existingTextItems, run.isEdited holds iff editedTextItems has an entry
\* for run.id.
C6_IsEditedMirrorsLedger ==
  \A n \in 1..Len(existingTextItems) :
    existingTextItems[n].isEdited <=> HasEdit(editedTextItems, existingTextItems[n].id)

\* an edited run and its entry outlive the failed load of a file that is
\* not a PDF
C6_Witness ==
  /\ Malformed(pdfBytes)
  /\ tasks = <<>>
  /\ \E n \in 1..Len(existingTextItems) :
       /\ existingTextItems[n].isEdited
       /\ HasEdit(editedTextItems, existingTextItems[n].id)

InPdfSpace(e) ==
  \E p \in 1..NumPages(e.ofDoc) :
    /\ e.key[2] + 1 \in 1..Len(ItemStrs(e.ofDoc, p))
    /\ e.pdfX = ItemTransform(e.ofDoc, p, e.key[2])[5]
    /\ e.pdfY = ItemTransform(e.ofDoc, p, e.key[2])[6]
    /\ e.pdfFontSize = ItemSize(e.ofDoc, p, e.key[2])
    /\ e.pdfWidth = ItemWidth(e.ofDoc, p, e.key[2])
    /\ e.pdfHeight = ItemHeight(e.ofDoc, p, e.key[2])

NavigationAction == Navigate \/ RenderStep

\* C8: navigation, zoom and extraction never touch the ledger: prevPage,
\* nextPage, zoomIn, zoomOut, the zoom selector and every step of
\* renderPage and extractTextItems, failed or not, leave editedTextItems
\* unchanged; and the geometry of every entry is the PDF geometry of its
\* source item whatever the zoom at which the edit was committed.
C8_NavigationKeepsLedger ==
  [][ /\ NavigationAction => UNCHANGED editedTextItems
      /\ \A n \in 1..Len(editedTextItems') : InPdfSpace(editedTextItems'[n]) ]_vars

\* an entry whose run is on display at a zoom other than the initial one
C8_Witness ==
  /\ scale # InitialScale
  /\ \E n \in 1..Len(existingTextItems) :
       /\ HasEdit(editedTextItems, existingTextItems[n].id)
       /\ existingTextItems[n].width = existingTextItems[n].pdfWidth * scale
       /\ EditOf(editedTextItems, existingTextItems[n].id).pdfWidth
            = existingTextItems[n].pdfWidth

IdsAndFlags(items) ==
  [ n \in 1..Len(items) |-> << items[n].id, items[n].isEdited >> ]

C10_IdIsSourceIndex ==
  existingTextItems # <<>> =>
    LET d    == existingTextItems[1].ofDoc
        p    == existingTextItems[1].ofPage
        src  == TextContent(d, p)
        kept == { i \in 0..(Len(src) - 1) :
                    \E c \in 1..Len(src[i + 1].str) : src[i + 1].str[c] \notin WhiteSpace }
    IN  /\ Len(existingTextItems) = Cardinality(kept)
        /\ { existingTextItems[n].index : n \in 1..Len(existingTextItems) } = kept
        /\ \A m, n \in 1..Len(existingTextItems) :
             m < n => existingTextItems[m].index < existingTextItems[n].index
        /\ \A n \in 1..Len(existingTextItems) :
             /\ existingTextItems[n].id = ItemKey(p, existingTextItems[n].index)
             /\ existingTextItems[n].originalText
                  = src[existingTextItems[n].index + 1].str

\* the operations of ops that patch ledger entries
EditPart(ops) == SelectSeq(ops, LAMBDA o : o.of = "edit")

\* C11: save patches exactly the runs in the ledger: the operations a save
\* emits for the ledger are, for every entry in turn, one erase rectangle
\* that covers the run followed by one draw of the entry's text, both on the
\* entry's page; no rectangle and no text is emitted for a run that has no
\* entry when the save draws; what is downloaded is what was drawn.
C11_SavePatchesLedger ==
  [][ \A k \in 1..Len(tasks) :
        /\ SaveDrawn(k) =>
             LET E == EditPart(tasks'[k].ops)
             IN  /\ Len(E) = 2 * Len(editedTextItems)
                 /\ \A n \in 1..Len(editedTextItems) :
                      LET e == editedTextItems[n]
                          r == E[2 * n - 1]
                          t == E[2 * n]
                      IN  /\ r.op = "drawRectangle" /\ r.ref = e.key /\ r.page = e.page
                          /\ r.x < 100 * e.pdfX
                          /\ r.x + r.width > 100 * (e.pdfX + e.pdfWidth)
                          /\ r.y < 100 * e.pdfY
                          /\ r.y + r.height > 100 * (e.pdfY + e.pdfHeight)
                          /\ t.op = "drawText" /\ t.ref = e.key /\ t.page = e.page
                          /\ t.text = e.text
                          /\ t.x = 100 * e.pdfX /\ t.y = 100 * e.pdfY
                          /\ t.size = 100 * e.pdfFontSize
                 /\ \A m \in 1..Len(existingTextItems) :
                      ~HasEdit(editedTextItems, existingTextItems[m].id)
                        => \A i \in 1..Len(E) : E[i].ref # existingTextItems[m].id
        /\ SaveDone(k) => saved' = << [ data |-> tasks[k].data, ops |-> tasks[k].ops ] >> ]_vars

\* a download patched with two entries of the same page, while a third run
\* of that page has no entry and no operation
C11_Witness ==
  /\ saved # <<>>
  /\ Len(editedTextItems) = 2
  /\ editedTextItems[1].page = editedTextItems[2].page
  /\ saved[1].ops = AllEditOps(editedTextItems)
  /\ Len(saved[1].ops) = 4
  /\ \E m \in 1..Len(existingTextItems) :
       /\ ~existingTextItems[m].isEdited
       /\ \A i \in 1..Len(saved[1].ops) : saved[1].ops[i].ref # existingTextItems[m].id

\* no operation for an overlay comes before an operation for a ledger entry
\* on the same page
EditsFirst(ops) ==
  \A i, j \in 1..Len(ops) :
    (i < j /\ ops[i].page = ops[j].page)
      => ~(ops[i].of = "overlay" /\ ops[j].of = "edit")

\* C12: draw order at save: in what a save has drawn and in what it
\* downloads, on every page every erase rectangle and replacement text of a
\* ledger entry comes before every background rectangle and text of an
\* overlay.
C12_EditsBeforeOverlays ==
  /\ \A k \in 1..Len(tasks) : EditsFirst(tasks[k].ops)
  /\ \A n \in 1..Len(saved) : EditsFirst(saved[n].ops)

\* a download in which an entry and an overlay of the same page were drawn
C12_Witness ==
  /\ saved # <<>>
  /\ \E i, j \in 1..Len(saved[1].ops) :
       /\ i < j
       /\ saved[1].ops[i].of = "edit" /\ saved[1].ops[i].op = "drawRectangle"
       /\ saved[1].ops[j].of = "overlay" /\ saved[1].ops[j].op = "drawText"
       /\ saved[1].ops[i].page = saved[1].ops[j].page

\* C13: save does not consume the ledger: the step that downloads the file
\* leaves the ledger and the overlays unchanged, and a save of the same
\* bytes that draws after an earlier download, with no edit, revert, overlay
\* change, zoom change or load since the earlier save drew, draws and
\* downloads exactly the operations of the earlier one.
C13_SecondSaveSame ==
  [][ \A k \in 1..Len(tasks) :
        /\ SaveDone(k) => UNCHANGED << editedTextItems, textOverlays >>
        /\ ( SaveDrawn(k) /\ saved # <<>> /\ saved[1].data = tasks[k].data )
             => tasks'[k].ops = saved[1].ops
        /\ ( SaveDone(k) /\ saved # <<>> /\ saved[1].data = tasks[k].data )
             => saved' = saved ]_vars

\* after a download with an entry and an overlay a second save has drawn
\* the same operations
C13_Witness ==
  /\ saved # <<>>
  /\ editedTextItems # <<>>
  /\ textOverlays # <<>>
  /\ scale # InitialScale
  /\ \E k \in 1..Len(tasks) :
       /\ tasks[k].kind = "save" /\ tasks[k].pc = "save"
       /\ tasks[k].data = saved[1].data
       /\ tasks[k].ops = saved[1].ops
       /\ Len(tasks[k].ops) = 4

\* a save that has not yet drawn: it is suspended at PDFDocument.load or at
\* embedFont
Undrawn(t) == t.kind = "save" /\ t.pc \in { "PDFDocument.load", "embedFont" }

\* what a save of the bytes d would draw from the stores as they are now,
\* and as they are after the step
WouldDraw(d) ==
  AllEditOps(editedTextItems) \o AllOverlayOps(textOverlays, PageHeight(d), scale)

WouldDrawNext(d) ==
  AllEditOps(editedTextItems') \o AllOverlayOps(textOverlays', PageHeight(d), scale')

\* C14: a save in flight works on a consistent snapshot: no step taken
\* while savePdf is suspended before it draws (a commit, a revert, an
\* overlay change, a load) changes what that save will draw, so that its
\* output is the patch of the stores as they were when it was invoked; and
\* a save never draws, on the bytes of one document, an entry or an overlay
\* recorded against another.
C14_SaveSnapshot ==
  [][ /\ ~SaveAction =>
           \A k \in 1..Len(tasks) :
             Undrawn(tasks[k]) => WouldDrawNext(tasks[k].data) = WouldDraw(tasks[k].data)
      /\ \A k \in 1..Len(tasks) :
           SaveDrawn(k) =>
             /\ \A n \in 1..Len(editedTextItems) :
                  editedTextItems[n].ofDoc = tasks[k].data
             /\ \A n \in 1..Len(textOverlays) :
                  textOverlays[n].ofDoc = tasks[k].data ]_vars

\* C15: in every state with a loaded document, every ledger entry and
\* every overlay records a page p with 1 <= p <= totalPages.
C15_PagesInRange ==
  pdfDoc # 0 =>
    /\ \A n \in 1..Len(editedTextItems) : editedTextItems[n].page \in 1..totalPages
    /\ \A n \in 1..Len(textOverlays) : textOverlays[n].page \in 1..totalPages

\* C16: save fails fast with no partial output: a save whose bytes do not
\* parse never gets past the parse, a save draws only when every page it
\* needs exists and then draws every entry and every overlay, a failing
\* save delivers nothing, and what is delivered is the complete drawing of
\* a parsed document, every operation on a page of that document.
C16_SaveFailsFast ==
  [][ \A k \in 1..Len(tasks) :
        /\ SaveParsed(k) => ~Malformed(tasks[k].data)
        /\ SaveFailed(k) => saved' = saved
        /\ SaveDrawn(k) =>
             LET ops == tasks'[k].ops
             IN  /\ \A i \in 1..Len(ops) : ops[i].page \in 1..NumPages(tasks[k].data)
                 /\ \A n \in 1..Len(editedTextItems) :
                      \E i \in 1..Len(ops) :
                        /\ ops[i].of = "edit" /\ ops[i].op = "drawText"
                        /\ ops[i].ref = editedTextItems[n].key
                 /\ \A n \in 1..Len(textOverlays) :
                      \E i \in 1..Len(ops) :
                        /\ ops[i].of = "overlay" /\ ops[i].op = "drawText"
                        /\ ops[i].ref = textOverlays[n].id
        /\ SaveDone(k) =>
             /\ ~Malformed(tasks[k].data)
             /\ \A i \in 1..Len(tasks[k].ops) :
                  tasks[k].ops[i].page \in 1..NumPages(tasks[k].data)
             /\ saved' = << [ data |-> tasks[k].data, ops |-> tasks[k].ops ] >> ]_vars

\* a save of parsed bytes is about to draw an overlay whose page the
\* document does not have, and nothing has been delivered
C16_Witness ==
  /\ saved = <<>>
  /\ \E k \in 1..Len(tasks) :
       /\ tasks[k].kind = "save" /\ tasks[k].pc = "embedFont"
       /\ \E n \in 1..Len(textOverlays) :
            textOverlays[n].page \notin 1..NumPages(tasks[k].data)

\* a step in which handleFileUpload ends in its catch block
LoadFails(k) ==
  \/ LoadParseFailed(k)
  \/ tasks[k].kind = "load" /\ RenderFailed(k)

\* C17: a failed load leaves the session with no document: when
\* handleFileUpload fails, the byte buffer, the document handle and the page
\* count are at their pre-load defaults.
C17_FailedLoadNoDocument ==
  [][ \A k \in 1..Len(tasks) :
        LoadFails(k) => ( pdfBytes' = 0 /\ pdfDoc' = 0 /\ totalPages' = 0 ) ]_vars

\* C18: selection is exclusive: in every state at most one of
\* selectedOverlay and selectedTextItem is non-null.
C18_SelectionExclusive ==
  ~(selectedOverlay # NoOverlay /\ selectedTextItem # NoItem)

\* a step in which an awaited call of a load, a render or a save rejects
Fails(k) == LoadParseFailed(k) \/ RenderFailed(k) \/ SaveFailed(k)

\* C19: every failure is surfaced: every step in which a load, a render or
\* a save fails runs the catch block of handleFileUpload (lines 782-784,
\* alert 'Error loading PDF file') or the catch block of savePdf (lines
\* 1159-1161, alert 'Error saving PDF file'), and not both.
C19_FailuresSurfaced ==
  [][ \A k \in 1..Len(tasks) :
        Fails(k) => /\ LoadFails(k) \/ SaveFailed(k)
                    /\ ~(LoadFails(k) /\ SaveFailed(k)) ]_vars

\* C20: overlay ids are unique: in every state no two overlays of
\* textOverlays have the same id.
C20_OverlayIdsUnique ==
  \A m, n \in 1..Len(textOverlays) :
    m # n => textOverlays[m].id # textOverlays[n].id

\* C21: the ledger holds at most one entry per run id, and editedCount
\* never exceeds the number of distinct runs committed with changed text
\* since the last load: a load empties the ledger, a step adds a key only
\* when it is finishEditingTextItem of a run whose text differs from its
\* original, the key added is the id of that run, and no other step adds
\* a key.
C21_OneEntryPerRun ==
  [][ /\ Cardinality(EditKeys(editedTextItems')) = Len(editedTextItems')
      /\ \A k \in 1..Len(tasks) : LoadParsed(k) => editedTextItems' = <<>>
      /\ \/ EditKeys(editedTextItems') \subseteq EditKeys(editedTextItems)
         \/ \E n \in 1..Len(existingTextItems) :
              /\ finishEditingTextItem(n)
              /\ existingTextItems[n].text # existingTextItems[n].originalText
              /\ EditKeys(editedTextItems')
                   = EditKeys(editedTextItems) \cup { existingTextItems[n].id } ]_vars

\* a run that has an entry is open for editing again with changed text,
\* next to the entry of another run
C21_Witness ==
  /\ Len(editedTextItems) = 2
  /\ \E n \in 1..Len(existingTextItems) :
       /\ existingTextItems[n].isEditing
       /\ HasEdit(editedTextItems, existingTextItems[n].id)
       /\ existingTextItems[n].text # existingTextItems[n].originalText

\* PDF point p on a page of file d to viewport space at zoom z, as
\* extractTextItems maps the origin of a run (lines 823-827)
ToViewport(p, d, z) ==
  LET tx == UtilTransform(GetViewport(d, z).transform, << 1, 0, 0, 1, p[1], p[2] >>)
  IN  << tx[5], tx[6] >>

\* viewport point v back to PDF space at zoom z, as savePdf maps the top
\* left corner of an overlay of viewport font size f (lines 1108-1111):
\* the text is drawn at pdfY, its top is pdfY + pdfFontSize
BackToPdf(v, f, d, z) ==
  LET o  == [ id |-> 0, x |-> v[1], y |-> v[2], text |-> <<>>, fontSize |-> f,
              bgEnabled |-> FALSE, bgWidth |-> 0, bgHeight |-> 0, page |-> 1,
              ofDoc |-> d ]
      op == OverlayOps(o, PageHeight(d), z)[1]
  IN  << op.x, op.y + op.size >>

GridPoints == { 0, 1, 72, 612 } \X { 0, 1, 700, 792 }

\* C22: coordinate round trip: a PDF point mapped to viewport space as at
\* extraction and back as at save, at the same zoom, is the point itself
\* (recorded in hundredths): for the origin of every run an extraction
\* yields at the zoom of its viewport, and for every point of a grid at
\* every zoom level.
C22_RoundTrip ==
  [][ \A k \in 1..Len(tasks) :
        extractTextItems(k) =>
          LET d == tasks[k].data
              z == tasks[k].viewport.scale
          IN  /\ \A n \in 1..Len(existingTextItems') :
                   LET r == existingTextItems'[n]
                   IN  /\ << r.x, r.y + r.pdfHeight * z >>
                            = ToViewport(<< r.pdfX, r.pdfY >>, d, z)
                       /\ BackToPdf(<< r.x, r.y + r.pdfHeight * z >>, r.fontSize, d, z)
                            = << 100 * r.pdfX, 100 * r.pdfY >>
              /\ \A p \in GridPoints : \A m \in 1..Len(zoomLevels) :
                   BackToPdf(ToViewport(p, d, zoomLevels[m]), 12 * zoomLevels[m],
                             d, zoomLevels[m])
                     = << 100 * p[1], 100 * p[2] >> ]_vars

\* a run is on display at the largest zoom of the window, its origin
\* projected from its PDF origin
C22_Witness ==
  /\ scale = zoomLevels[MaxZoomIdx]
  /\ existingTextItems # <<>>
  /\ existingTextItems[1].x = existingTextItems[1].pdfX * scale
  /\ existingTextItems[1].y + existingTextItems[1].pdfHeight * scale
       = (PageHeight(existingTextItems[1].ofDoc) - existingTextItems[1].pdfY) * scale

\* the operations of ops drawn for the overlay with id ref
OverlayPart(ops, ref) == SelectSeq(ops, LAMBDA o : o.of = "overlay" /\ o.ref = ref)

\* the overlay of the example: screen (100, 200), font size 16, in quarter
\* pixels
ExampleOverlay ==
  [ id |-> 0, x |-> 400, y |-> 800, text |-> << "N" >>, fontSize |-> 64,
    bgEnabled |-> FALSE, bgWidth |-> 0, bgHeight |-> 0, page |-> 1, ofDoc |-> 0 ]

\* C23: overlay placement at save uses the zoom active at save time: for
\* an overlay at screen (x, y) with font size f on a page of height H,
\* drawn by a save while the zoom is z, the text is drawn at
\* (x/z, H - y/z - f/z) with size f/z (in hundredths, rounded down); the
\* example (100, 200), f = 16, z = 1.5, H = 792 gives (66.66, 648.00).
C23_OverlayAtSaveZoom ==
  [][ \A k \in 1..Len(tasks) :
        SaveDrawn(k) =>
          /\ \A n \in 1..Len(textOverlays) :
               LET o == textOverlays[n]
                   t == OverlayPart(tasks'[k].ops, o.id)
                   H == PageHeight(tasks[k].data)
               IN  /\ t # <<>>
                   /\ t[Len(t)].op = "drawText"
                   /\ t[Len(t)].text = o.text
                   /\ t[Len(t)].x = (100 * o.x) \div scale
                   /\ t[Len(t)].y = (100 * (H * scale - o.y - o.fontSize)) \div scale
                   /\ t[Len(t)].size = (100 * o.fontSize) \div scale
          /\ OverlayOps(ExampleOverlay, 792, 6)
               = << [ op |-> "drawText", of |-> "overlay", ref |-> 0, page |-> 1,
                      x |-> 6666, y |-> 64800, width |-> 0, height |-> 0,
                      size |-> 1066, text |-> << "N" >> ] >> ]_vars

\* a download made at a zoom other than the initial one, its overlay
\* converted at that zoom
C23_Witness ==
  /\ saved # <<>>
  /\ scale # InitialScale
  /\ textOverlays # <<>>
  /\ \E i \in 1..Len(saved[1].ops) :
       /\ saved[1].ops[i].of = "overlay" /\ saved[1].ops[i].op = "drawText"
       /\ saved[1].ops[i].x = (100 * textOverlays[1].x) \div scale
       /\ saved[1].ops[i].size = (100 * textOverlays[1].fontSize) \div scale

\* a and b differ by at most one hundredth, the truncation of what is
\* recorded
Within1(a, b) == a - b \in { -1, 0, 1 }

\* C24: overlay background at save: when the background of an overlay is
\* enabled a save draws for it a rectangle of size (bgWidth/z, bgHeight/z)
\* and then its text, the left edge of the rectangle at the text x and its
\* top edge at the text baseline plus the PDF font size; when it is
\* disabled the save draws the text only.
C24_OverlayBackground ==
  [][ \A k \in 1..Len(tasks) :
        SaveDrawn(k) =>
          \A n \in 1..Len(textOverlays) :
            LET o == textOverlays[n]
                t == OverlayPart(tasks'[k].ops, o.id)
            IN  IF o.bgEnabled
                  THEN /\ Len(t) = 2
                       /\ t[1].op = "drawRectangle" /\ t[2].op = "drawText"
                       /\ t[1].width = (100 * o.bgWidth) \div scale
                       /\ t[1].height = (100 * o.bgHeight) \div scale
                       /\ t[1].x = t[2].x
                       /\ Within1(t[1].y + t[1].height, t[2].y + t[2].size)
                  ELSE /\ Len(t) = 1
                       /\ t[1].op = "drawText" ]_vars

\* a download whose overlay had its background switched off: its text
\* alone was drawn
C24_Witness ==
  /\ saved # <<>>
  /\ textOverlays # <<>>
  /\ ~textOverlays[1].bgEnabled
  /\ Len(OverlayPart(saved[1].ops, textOverlays[1].id)) = 1
  /\ OverlayPart(saved[1].ops, textOverlays[1].id)[1].op = "drawText"

\* no renderPage is suspended
NoRenderPending == \A k \in 1..Len(tasks) : ~IsRendering(tasks[k])

\* C25: displayed run geometry follows the current page and zoom: whenever
\* a document is loaded and no render or extraction is pending, every run
\* of existingTextItems was read from currentPage of the loaded file and
\* its viewport position and size are its PDF geometry projected at the
\* current scale.
C25_GeometryFollowsPageAndZoom ==
  ( pdfDoc # 0 /\ NoRenderPending ) =>
    \A n \in 1..Len(existingTextItems) :
      LET r == existingTextItems[n]
      IN  /\ r.ofDoc = pdfBytes
          /\ r.ofPage = currentPage
          /\ r.page = currentPage
          /\ r.x = r.pdfX * scale
          /\ r.y + r.pdfHeight * scale = (PageHeight(r.ofDoc) - r.pdfY) * scale
          /\ r.width = r.pdfWidth * scale
          /\ r.fontSize = r.pdfFontSize * scale

\* C26: every edit interaction ends with finishEditingTextItem: a run that
\* is being edited stops being edited only in a step that is
\* finishEditingTextItem of that run.
C26_EditEndsWithCommit ==
  [][ \A n \in 1..Len(existingTextItems) :
        ( /\ existingTextItems[n].isEditing
          /\ ~\E m \in 1..Len(existingTextItems') :
                /\ existingTextItems'[m].id = existingTextItems[n].id
                /\ existingTextItems'[m].isEditing )
        => finishEditingTextItem(n) ]_vars

\* source item i of page p of file d exists
IsSourceItem(d, p, i) ==
  /\ p \in 1..NumPages(d)
  /\ i + 1 \in 1..Len(ItemStrs(d, p))

\* C27: extracted runs are labelled with the page they came from: in every
\* state a run with id "p-i" and page p carries the text and the PDF
\* geometry of source item i of page p of the file it was read from, and
\* a ledger entry keyed "p-i" holds the geometry of that source item.
C27_RunsLabelledWithSourcePage ==
  /\ \A n \in 1..Len(existingTextItems) :
       LET r == existingTextItems[n]
           p == r.id[1]
           i == r.id[2]
       IN  /\ r.page = p
           /\ IsSourceItem(r.ofDoc, p, i)
           /\ r.originalText = ItemStrs(r.ofDoc, p)[i + 1]
           /\ r.pdfX = ItemTransform(r.ofDoc, p, i)[5]
           /\ r.pdfY = ItemTransform(r.ofDoc, p, i)[6]
           /\ r.pdfWidth = ItemWidth(r.ofDoc, p, i)
  /\ \A n \in 1..Len(editedTextItems) :
       LET e == editedTextItems[n]
       IN  /\ IsSourceItem(e.ofDoc, e.key[1], e.key[2])
           /\ e.page = e.key[1]
           /\ e.pdfX = ItemTransform(e.ofDoc, e.key[1], e.key[2])[5]
           /\ e.pdfY = ItemTransform(e.ofDoc, e.key[1], e.key[2])[6]

\* C28: whenever a document is loaded, 1 <= currentPage <= totalPages.
C28_CurrentPageInRange ==
  pdfDoc # 0 => currentPage \in 1..totalPages

\* C29: isLoading is true whenever a load or a save is in flight, so that
\* the Save button, disabled while isLoading, cannot start a save then.
C29_IsLoadingWhileInFlight ==
  ( \E k \in 1..Len(tasks) : tasks[k].kind \in { "load", "save" } ) => isLoading

\* C30: the selection never dangles: selectedOverlay is null or the id of
\* an overlay in textOverlays, and selectedTextItem is null or the id of a
\* run of the current page in existingTextItems.
C30_SelectionNeverDangles ==
  /\ \/ selectedOverlay = NoOverlay
     \/ \E n \in 1..Len(textOverlays) : textOverlays[n].id = selectedOverlay
  /\ \/ selectedTextItem = NoItem
     \/ \E n \in 1..Len(existingTextItems) :
          /\ existingTextItems[n].id = selectedTextItem
          /\ existingTextItems[n].page = currentPage

\* level b is the level next above level a
NextAbove(a, b) ==
  /\ a < b
  /\ \A n \in 1..Len(zoomLevels) : ~(a < zoomLevels[n] /\ zoomLevels[n] < b)

\* C31: the zoom factor is always one of the fixed zoom levels; a zoomIn
\* step happens only below the highest level, moves scale to the next
\* higher level and starts a render, a zoomOut step happens only above the
\* lowest level, moves scale to the next lower level and starts a render;
\* called at the highest (lowest) level zoomIn (zoomOut) leaves the level
\* unchanged; zoomIn followed by zoomOut from a level that is not the
\* highest returns to the starting level.
C31_ZoomLevels ==
  [][ /\ \E n \in 1..Len(zoomLevels) : scale' = zoomLevels[n]
      /\ zoomIn => /\ scale # zoomLevels[Len(zoomLevels)]
                   /\ scale' = ZoomInLevel(scale)
                   /\ NextAbove(scale, scale')
                   /\ Len(tasks') = Len(tasks) + 1
      /\ zoomOut => /\ scale # zoomLevels[1]
                    /\ scale' = ZoomOutLevel(scale)
                    /\ NextAbove(scale', scale)
                    /\ Len(tasks') = Len(tasks) + 1
      /\ \A n \in 1..Len(zoomLevels) :
           /\ n < Len(zoomLevels) =>
                /\ ZoomInLevel(zoomLevels[n]) = zoomLevels[n + 1]
                /\ ZoomOutLevel(ZoomInLevel(zoomLevels[n])) = zoomLevels[n]
           /\ n > 1 => ZoomOutLevel(zoomLevels[n]) = zoomLevels[n - 1]
      /\ ZoomInLevel(zoomLevels[Len(zoomLevels)]) = zoomLevels[Len(zoomLevels)]
      /\ ZoomOutLevel(zoomLevels[1]) = zoomLevels[1] ]_vars

\* the page is on display at the highest zoom level
C31_Witness ==
  /\ scale = zoomLevels[Len(zoomLevels)]
  /\ ZoomInLevel(scale) = scale
  /\ tasks = <<>>
  /\ existingTextItems # <<>>
  /\ existingTextItems[1].width = existingTextItems[1].pdfWidth * scale

\* a load or a save is in flight
InFlight == \E k \in 1..Len(tasks) : tasks[k].kind \in { "load", "save" }

\* a file is chosen or Save PDF is clicked
StartsOperation == ( \E f \in Files : handleFileUpload(f) ) \/ savePdf

\* C32: the busy flag always clears: whenever isLoading is true it is
\* eventually false again, whether the operations succeed or fail; once no
\* further operation is started every operation in flight ends and
\* isLoading stays false; and isLoading is never true with no load and no
\* save in flight.
C32_BusyFlagClears ==
  /\ [](isLoading => InFlight)
  /\ (isLoading ~> ~isLoading)
  /\ (<>[][~StartsOperation]_vars => <>[](~InFlight /\ ~isLoading))

\* a load has failed on a malformed file and the flag is clear again
C32_Witness ==
  /\ ~isLoading
  /\ tasks = <<>>
  /\ pdfDoc = 0
  /\ Malformed(pdfBytes)

\* a second finishEditingTextItem on run n changes nothing in st
CommitAgainSame(st, n) ==
  LET again == finishEditing(st, n)
  IN  /\ again.edits = st.edits
      /\ again.items[n].text = st.items[n].text
      /\ again.items[n].isEdited = st.items[n].isEdited
      /\ again = st

\* C33: finishEditingTextItem is idempotent: after every
\* finishEditingTextItem step a second call on the same run, with no text
\* change in between, leaves the ledger, the run's text and its isEdited
\* flag (and everything else it writes) exactly as after the first call;
\* the same holds for a first call made on any run of any state.
C33_CommitIdempotent ==
  [][ /\ \A n \in 1..Len(existingTextItems) :
           finishEditingTextItem(n) => CommitAgainSame(EditState', n)
      /\ \A n \in 1..Len(existingTextItems) :
           CommitAgainSame(finishEditing(EditState, n), n) ]_vars

\* a run was committed with changed text next to the entry of another
\* page's run, and committing it again changes nothing
C33_Witness ==
  /\ Len(editedTextItems) = 2
  /\ \E n \in 1..Len(existingTextItems) :
       /\ ~existingTextItems[n].isEditing
       /\ existingTextItems[n].isEdited
       /\ HasEdit(editedTextItems, existingTextItems[n].id)
       /\ finishEditing(EditState, n) = EditState

====
